---- MODULE Spec2Model ----
(***************************************************************************)
(* Model of offchain/offchain/src/fold/fee_manager_delegate.rs:            *)
(* FeeManagerDelegate::sync, FeeManagerDelegate::fold and                  *)
(* convert_voucher_position_to_indices.                                    *)
(*                                                                         *)
(* An accumulator is the record a struct literal of the source builds: it  *)
(* holds exactly the fields the literal names.  sync's literal (lines      *)
(* 107-114) names six fields and neither `vouchers` nor `voucher_address`; *)
(* fold's literal (lines 158-161) names `vouchers` and `voucher_address`   *)
(* only.  fold reads `previous_state.voucher_address` and                  *)
(* `previous_state.vouchers`; when the accumulator it is given was built   *)
(* by a literal that never set the field, the value read is unconstrained  *)
(* (any value of the field's type, drawn from a small set).                *)
(*                                                                         *)
(* A call ends in one of three ways: Ok(value), Err(error, err) (the `?`   *)
(* of a failed query, with snafu's context), or Panic (unwrap on None,     *)
(* IndexMut on an absent key, an array index out of bounds).               *)
(***************************************************************************)
EXTENDS Integers, Sequences, FiniteSets, TLC

VARIABLES chain, acc, call

vars == <<chain, acc, call>>

---------------------------------------------------------------------------
(* Bounds of the model. *)

\* blocks the chain may hold
MaxBlocks == 2
\* voucher-executed logs in the whole chain
MaxEvents == 2
\* the longest redemption query answer (one more than the slots of the array)
MaxRedeemed == 9
\* the longest answer of the manager-created query
MaxCreated == 2

(* Program constant: the slots of validator_redeemed, `[None; 8]`. *)
ValidatorSlots == 8

---------------------------------------------------------------------------
(* Input sets. *)

Address == {1, 2}

\* U256 as the uint crate holds it: four u64 limbs, least significant first.
\* voucher_position = voucher_index * 2**128 + input_index * 2**64 + epoch,
\* with `reserved` in the top limb.
Position(reserved, voucher_index, input_index, epoch) ==
    <<epoch, input_index, voucher_index, reserved>>

PositionInputs == {Position(0, 5, 2, 9), Position(1, 5, 3, 9)}

---------------------------------------------------------------------------
(* Results of a call. *)

Ok(value) == [tag |-> "Ok", value |-> value]

Err(error, err) == [tag |-> "Err", error |-> error, err |-> err]

Panic(msg) == [tag |-> "Panic", msg |-> msg]

---------------------------------------------------------------------------
(* convert_voucher_position_to_indices *)

RECURSIVE ToBeBytes(_, _)
\* the n low bytes of x, most significant first
ToBeBytes(x, n) ==
    IF n = 0 THEN <<>> ELSE Append(ToBeBytes(x \div 256, n - 1), x % 256)

\* U256::to_big_endian: 32 bytes, the most significant limb first
to_big_endian(u) ==
    ToBeBytes(u[4], 8) \o ToBeBytes(u[3], 8) \o ToBeBytes(u[2], 8) \o ToBeBytes(u[1], 8)

RECURSIVE from_be_bytes(_)
\* usize::from_be_bytes
from_be_bytes(b) ==
    IF b = <<>> THEN 0
    ELSE from_be_bytes(SubSeq(b, 1, Len(b) - 1)) * 256 + b[Len(b)]

\* mutant: the slices of input_index and epoch exchanged
convert_SwappedSlices(voucher_position) ==
    LET pos_bytes == to_big_endian(voucher_position)
    IN  <<from_be_bytes(SubSeq(pos_bytes, 9, 16)),
          from_be_bytes(SubSeq(pos_bytes, 25, 32)),
          from_be_bytes(SubSeq(pos_bytes, 17, 24))>>

\* mutant: voucher_index taken from pos_bytes[0..8], the reserved bytes
convert_ReservedSlice(voucher_position) ==
    LET pos_bytes == to_big_endian(voucher_position)
    IN  <<from_be_bytes(SubSeq(pos_bytes, 1, 8)),
          from_be_bytes(SubSeq(pos_bytes, 17, 24)),
          from_be_bytes(SubSeq(pos_bytes, 25, 32))>>

\* pos_bytes[8..16], [16..24], [24..32] are elements 9..16, 17..24, 25..32
convert_voucher_position_to_indices(voucher_position) ==
    LET pos_bytes == to_big_endian(voucher_position)
        voucher_index_bytes == SubSeq(pos_bytes, 9, 16)
        input_index_bytes == SubSeq(pos_bytes, 17, 24)
        epoch_bytes == SubSeq(pos_bytes, 25, 32)
    IN  <<from_be_bytes(voucher_index_bytes),
          from_be_bytes(input_index_bytes),
          from_be_bytes(epoch_bytes)>>

---------------------------------------------------------------------------
(* The voucher ledger: HashMap<usize, HashMap<usize, HashMap<usize, bool>>> *)

EmptyMap == <<>>

\* m with key k holding x
MapPut(m, k, x) == [y \in DOMAIN m \cup {k} |-> IF y = k THEN x ELSE m[y]]

\* .entry(k).or_insert_with(|| d): the value at k, d when k is absent
EntryOr(m, k, d) == IF k \in DOMAIN m THEN m[k] ELSE d

\* mutant: vouchers.insert(v, ...) of a fresh map in place of the entry chain
MergeExecuted_Overwrite(vouchers, voucher_index, input_index, epoch_index) ==
    MapPut(vouchers, voucher_index,
           MapPut(EmptyMap, input_index, MapPut(EmptyMap, epoch_index, TRUE)))

\* mutant: an entry already present is negated instead of kept
MergeExecuted_Flip(vouchers, voucher_index, input_index, epoch_index) ==
    LET inputs == EntryOr(vouchers, voucher_index, EmptyMap)
        epochs == EntryOr(inputs, input_index, EmptyMap)
        executed == ~EntryOr(epochs, epoch_index, FALSE)
    IN  MapPut(vouchers, voucher_index,
               MapPut(inputs, input_index,
                      MapPut(epochs, epoch_index, executed)))

\* vouchers.entry(v).or_insert_with(HashMap::new).entry(i)
\*     .or_insert_with(HashMap::new).entry(e).or_insert_with(|| true)
MergeExecuted(vouchers, voucher_index, input_index, epoch_index) ==
    LET inputs == EntryOr(vouchers, voucher_index, EmptyMap)
        epochs == EntryOr(inputs, input_index, EmptyMap)
        executed == EntryOr(epochs, epoch_index, TRUE)
    IN  MapPut(vouchers, voucher_index,
               MapPut(inputs, input_index,
                      MapPut(epochs, epoch_index, executed)))

RECURSIVE MergeEvents(_, _)
\* `for ev in events { convert...; vouchers.entry... }`, in the order returned
MergeEvents(vouchers, events) ==
    IF events = <<>> THEN vouchers
    ELSE LET idx == convert_voucher_position_to_indices(events[1].voucher_position)
         IN  MergeEvents(MergeExecuted(vouchers, idx[1], idx[2], idx[3]), Tail(events))

\* the triples a ledger marks executed
Executed(vouchers) ==
    {t \in UNION {UNION {{<<v, i, e>> : e \in DOMAIN vouchers[v][i]}
                         : i \in DOMAIN vouchers[v]} : v \in DOMAIN vouchers} :
        vouchers[t[1]][t[2]][t[3]] = TRUE}

---------------------------------------------------------------------------
(* The access port: the chain and the answers of its queries *)

\* a voucher-executed log of a block: the emitting contract and the position
LogEvents ==
    {[address |-> 1, voucher_position |-> Position(0, 5, 2, 9)],
     [address |-> 1, voucher_position |-> Position(1, 5, 3, 9)],
     [address |-> 2, voucher_position |-> Position(0, 5, 2, 9)]}

LogInputs == UNION {[1..n -> LogEvents] : n \in 0..MaxEvents}

RECURSIVE TotalEvents(_)
TotalEvents(c) == IF c = <<>> THEN 0 ELSE Len(c[1]) + TotalEvents(Tail(c))

\* the logs blooms a block with these logs may carry: no false negatives,
\* false positives allowed (logs of other contracts are not modelled)
VoucherExecutedSignature == "VoucherExecuted(uint256)"

Blooms(logs) ==
    {[addresses |-> {logs[k].address : k \in 1..Len(logs)} \cup more_addresses,
      topics |-> {VoucherExecutedSignature : k \in 1..Len(logs)} \cup more_topics] :
        more_addresses \in {{}, Address}, more_topics \in {{}, {VoucherExecutedSignature}}}

contains_address(logs_bloom, address) == address \in logs_bloom.addresses

contains_topic(logs_bloom, topic) == topic \in logs_bloom.topics

\* the events of one contract among logs, as the binding decodes them
EventsOf(logs, address) ==
    LET mine == SelectSeq(logs, LAMBDA ev : ev.address = address)
    IN  [k \in 1..Len(mine) |-> [voucher_position |-> mine[k].voucher_position]]

RECURSIVE LogsUpTo(_, _)
LogsUpTo(c, number) ==
    IF number = 0 THEN <<>> ELSE LogsUpTo(c, number - 1) \o c[number]

\* voucher_executed_filter().query() of a contract view: a view bound at a
\* block hash sees that block only, a view bound at a block number sees the
\* history up to it
VoucherExecutedEvents(c, contract) ==
    IF contract.at.kind = "hash"
    THEN EventsOf(c[contract.at.block], contract.address)
    ELSE EventsOf(LogsUpTo(c, contract.at.block), contract.address)

NotIssued == [issued |-> FALSE, ok |-> FALSE, events |-> <<>>]

Failed == [issued |-> TRUE, ok |-> FALSE, events |-> <<>>]

Answer(events) == [issued |-> TRUE, ok |-> TRUE, events |-> events]

\* answers of fee_manager_created_filter().query()
CreatedEvents ==
    {[validator_manager_cci |-> 1, erc20 |-> 2, fee_per_claim |-> 100],
     [validator_manager_cci |-> 2, erc20 |-> 1, fee_per_claim |-> 200]}

CreatedInputs ==
    {evs \in UNION {[1..n -> CreatedEvents] : n \in 0..MaxCreated} :
        \A j, k \in DOMAIN evs : j < k => evs[j].fee_per_claim < evs[k].fee_per_claim}

\* answers of fee_redeemed_filter().query(): n events of m validators in turn
Cycle(n, m) ==
    [k \in 1..n |-> [validator |-> ((k - 1) % m) + 1,
                     amount |-> IF k % 2 = 1 THEN 30 ELSE 20,
                     voucher_position |-> Position(0, 5, 2, 9)]]

RedeemedInputs ==
    {Cycle(0, 1), Cycle(1, 1), Cycle(2, 1), Cycle(2, 2), Cycle(MaxRedeemed, MaxRedeemed)}

---------------------------------------------------------------------------
(* sync *)

None == [some |-> FALSE]

Some(x) == [some |-> TRUE, value |-> x]

\* build_sync_contract(*fee_manager_address, block.number, FeeManagerImpl::new)
build_sync_contract(address, number) ==
    [address |-> address, at |-> [kind |-> "number", block |-> number]]

\* lines 83-86: IndexMut of im::HashMap panics on a key the map does not hold
\* ("HashMap::index_mut: invalid key"); it never inserts.  The sum is taken
\* on amounts far below 2^256, where the U256 addition does not overflow.
RedeemStep(sums, ev) ==
    IF ev.validator \in DOMAIN sums
    THEN [panic |-> FALSE,
          sums |-> [sums EXCEPT ![ev.validator] = sums[ev.validator] + ev.amount]]
    ELSE [panic |-> TRUE, sums |-> sums]

RECURSIVE SumRedeemed(_, _)
\* lines 82-87
SumRedeemed(sums, events) ==
    IF events = <<>> THEN [panic |-> FALSE, sums |-> sums]
    ELSE LET step == RedeemStep(sums, events[1])
         IN  IF step.panic THEN step ELSE SumRedeemed(step.sums, Tail(events))

\* the orders in which validator_redeemed_sums.iter() may yield its entries
IterOrders(sums) ==
    {o \in [1..Cardinality(DOMAIN sums) -> DOMAIN sums] :
        \A a \in DOMAIN sums : \E k \in DOMAIN o : o[k] = a}

\* lines 79 and 89-91: validator_redeemed[index] = Some((*sum.0, *sum.1)),
\* index counting from 0; indexing past the array panics
Materialize(sums, order) ==
    IF Len(order) > ValidatorSlots
    THEN [panic |-> TRUE, validator_redeemed |-> [k \in 1..ValidatorSlots |-> None]]
    ELSE [panic |-> FALSE,
          validator_redeemed |->
              [k \in 1..ValidatorSlots |->
                  IF k <= Len(order) THEN Some(<<order[k], sums[order[k]]>>) ELSE None]]

\* mutant: the two addresses of the creation event exchanged
SyncState_Swapped(created_event, validator_redeemed) ==
    [validator_manager_address |-> created_event.erc20,
     erc20_address |-> created_event.validator_manager_cci,
     fee_per_claim |-> created_event.fee_per_claim,
     validator_redeemed |-> validator_redeemed,
     leftover_balance |-> 0,
     fee_manager_balance |-> 0]

\* lines 107-114: the accumulator sync returns
SyncState(created_event, validator_redeemed) ==
    [validator_manager_address |-> created_event.validator_manager_cci,
     erc20_address |-> created_event.erc20,
     fee_per_claim |-> created_event.fee_per_claim,
     validator_redeemed |-> validator_redeemed,
     leftover_balance |-> 0,
     fee_manager_balance |-> 0]

\* lines 66-71
SyncCreated(created) ==
    IF ~created.ok
    THEN Err("SyncContractError", "Error querying for fee manager created events")
    ELSE IF created.events = <<>>
    THEN Panic("called Option::unwrap() on a None value")
    ELSE Ok(created.events[1])

\* mutant: unwrap_or_default() in place of `?`
SyncRedeemed_Swallow(redeemed) ==
    Ok(redeemed.events)

\* lines 73-77
SyncRedeemed(redeemed) ==
    IF ~redeemed.ok
    THEN Err("SyncContractError", "Error querying for fee redeemed events")
    ELSE Ok(redeemed.events)

\* lines 93-105: the local `vouchers`, built from the events of the redemption query
SyncVouchers(events) == MergeEvents(EmptyMap, events)

\* whether sync reaches the second query
SyncQueriesRedeemed(created) == SyncCreated(created).tag = "Ok"

\* whether sync reaches the iteration of validator_redeemed_sums
SyncIterates(created, redeemed) ==
    /\ SyncCreated(created).tag = "Ok"
    /\ SyncRedeemed(redeemed).tag = "Ok"
    /\ ~SumRedeemed(EmptyMap, redeemed.events).panic

sync(fee_manager_address, block, created, redeemed, order) ==
    LET created_event == SyncCreated(created)
        events == SyncRedeemed(redeemed)
    IN  IF created_event.tag # "Ok" THEN created_event
        ELSE IF events.tag # "Ok" THEN events
        ELSE LET summed == SumRedeemed(EmptyMap, events.value)
             IN  IF summed.panic THEN Panic("HashMap::index_mut: invalid key")
                 ELSE LET slots == Materialize(summed.sums, order)
                      IN  IF slots.panic THEN Panic("index out of bounds")
                          ELSE Ok(SyncState(created_event.value, slots.validator_redeemed))

---------------------------------------------------------------------------
(* fold *)

\* nondeterministic values of fields no literal set
UnsetLedgers ==
    {EmptyMap} \cup {MergeEvents(EmptyMap, <<[voucher_position |-> p]>>) : p \in PositionInputs}

\* line 123: previous_state.voucher_address
ReadVoucherAddress(previous_state) ==
    IF "voucher_address" \in DOMAIN previous_state
    THEN {previous_state.voucher_address} ELSE Address

\* line 145: previous_state.vouchers.clone()
ReadVouchers(previous_state) ==
    IF "vouchers" \in DOMAIN previous_state
    THEN {previous_state.vouchers} ELSE UnsetLedgers

\* mutant: `||` in place of `&&` between the two bloom tests
InBloom_Either(logs_bloom, voucher_address) ==
    \/ contains_address(logs_bloom, voucher_address)
    \/ contains_topic(logs_bloom, VoucherExecutedSignature)

\* lines 126-130: the test whose failure copies the previous state
InBloom(logs_bloom, voucher_address) ==
    /\ contains_address(logs_bloom, voucher_address)
    /\ contains_topic(logs_bloom, VoucherExecutedSignature)

\* mutant: the contract bound as sync binds it, over the history up to the block
build_fold_contract_History(address, block) ==
    [address |-> address, at |-> [kind |-> "number", block |-> block.hash]]

\* build_fold_contract(voucher_address, block.hash, VoucherImpl::new)
build_fold_contract(address, block) ==
    [address |-> address, at |-> [kind |-> "hash", block |-> block.hash]]

\* lines 139-143
FoldEvents(response) ==
    IF ~response.ok
    THEN Err("FoldContractError", "Error querying for voucher executed events")
    ELSE Ok(response.events)

\* lines 158-161: the accumulator fold returns after a query
FoldState(vouchers, voucher_address) ==
    [vouchers |-> vouchers, voucher_address |-> voucher_address]

\* response is the answer of the query when fold issues it
fold(previous_state, block, voucher_address, vouchers_read, response) ==
    IF ~InBloom(block.logs_bloom, voucher_address)
    THEN Ok(previous_state)
    ELSE LET events == FoldEvents(response)
         IN  IF events.tag # "Ok" THEN events
             ELSE Ok(FoldState(MergeEvents(vouchers_read, events.value), voucher_address))

---------------------------------------------------------------------------
(* The state machine *)

NoCall == [op |-> "none"]

Init ==
    /\ chain = <<>>
    /\ acc = None
    /\ call = NoCall

\* the chain grows by one block
Mine ==
    \E logs \in LogInputs :
        /\ Len(chain) < MaxBlocks
        /\ TotalEvents(chain) + Len(logs) <= MaxEvents
        /\ chain' = Append(chain, logs)
        /\ call' = NoCall
        /\ UNCHANGED acc

\* the cold start: the engine syncs at the tip when it holds no accumulator
Sync ==
  /\ ~acc.some
  /\ \E fee_manager_address \in Address, number \in {Len(chain)},
       created \in {Failed} \cup {Answer(evs) : evs \in CreatedInputs} :
      \E redeemed \in (IF SyncQueriesRedeemed(created)
                       THEN {Failed} \cup {Answer(evs) : evs \in RedeemedInputs}
                       ELSE {NotIssued}) :
        \E order \in (IF SyncIterates(created, redeemed)
                      THEN IterOrders(SumRedeemed(EmptyMap, redeemed.events).sums)
                      ELSE {<<>>}) :
          LET block == [number |-> number]
              result == sync(fee_manager_address, block, created, redeemed, order)
          IN  /\ call' = [op |-> "sync",
                          fee_manager_address |-> fee_manager_address,
                          block |-> block,
                          contract |-> build_sync_contract(fee_manager_address, block.number),
                          created |-> created,
                          redeemed |-> redeemed,
                          vouchers |-> IF result.tag = "Ok" THEN Some(SyncVouchers(redeemed.events))
                                       ELSE None,
                          bindings |-> 1,
                          queries |-> IF redeemed.issued THEN 2 ELSE 1,
                          result |-> result]
              /\ acc' = IF result.tag = "Ok" THEN Some(result.value) ELSE None
              /\ UNCHANGED chain

Fold ==
    /\ acc.some
    /\ \E hash \in 1..Len(chain) :
         \E logs_bloom \in Blooms(chain[hash]),
            voucher_address \in ReadVoucherAddress(acc.value) :
           LET block == [hash |-> hash, logs_bloom |-> logs_bloom]
               queried == InBloom(logs_bloom, voucher_address)
               contract == build_fold_contract(voucher_address, block)
           IN  \E response \in (IF queried
                                THEN {Failed, Answer(VoucherExecutedEvents(chain, contract))}
                                ELSE {NotIssued}),
                  vouchers_read \in (IF queried THEN ReadVouchers(acc.value) ELSE {EmptyMap}) :
                 LET result == fold(acc.value, block, voucher_address, vouchers_read, response)
                 IN  /\ call' = [op |-> "fold",
                                 previous_state |-> acc.value,
                                 block |-> block,
                                 voucher_address |-> voucher_address,
                                 vouchers_read |-> IF queried /\ response.ok
                                                   THEN Some(vouchers_read) ELSE None,
                                 response |-> response,
                                 bindings |-> IF queried THEN 1 ELSE 0,
                                 queries |-> IF queried THEN 1 ELSE 0,
                                 result |-> result]
                     /\ acc' = IF result.tag = "Ok" THEN Some(result.value) ELSE acc
                     /\ UNCHANGED chain

Next == Mine \/ Sync \/ Fold

Spec == Init /\ [][Next]_vars

\* what sync returns at a block for one creation event and no redemption events
SyncAgain(number) ==
    {sync(address, [number |-> number], Answer(<<created_event>>), Answer(<<>>), <<>>) :
        address \in Address, created_event \in CreatedEvents}

---------------------------------------------------------------------------
(* Several fold calls in flight on sibling blocks from one previous
   accumulator. acc is the shared previous accumulator, chain holds one block
   per task, and call holds every task's position and locals. A task is
   suspended only while it awaits the answer of its query (line 141). *)

FoldTasks == {1, 2}

\* accumulators the program produces: by sync, and by fold after a query
PreviousInputs ==
    {result.value : result \in SyncAgain(0)}
        \cup {FoldState(vouchers, voucher_address) :
                 vouchers \in UnsetLedgers, voucher_address \in Address}

SiblingChains ==
    {c \in [FoldTasks -> LogInputs] : TotalEvents(c) <= MaxEvents}

\* mutant: the merges of lines 149-155 go to the ledger of previous_state
\* itself, as if line 145 took no clone
PreviousAfterMerge_InPlace(previous_state, vouchers) ==
    [field \in DOMAIN previous_state \cup {"vouchers"} |->
        IF field = "vouchers" THEN vouchers ELSE previous_state[field]]

\* line 119 and line 145: previous_state is borrowed immutably and the ledger
\* that receives the merges is a clone, so the shared value stays as it was
PreviousAfterMerge(previous_state, vouchers) == previous_state

ConcInit ==
    /\ chain \in SiblingChains
    /\ \E previous_state \in PreviousInputs :
          /\ acc = Some(previous_state)
          /\ call = [op |-> "folds",
                     previous_state |-> previous_state,
                     schedule |-> <<>>,
                     tasks |-> [t \in FoldTasks |-> [pc |-> "start"]]]

\* lines 123-137: from the entry of fold to the short-circuit return or to
\* the suspension at the query
ConcStart(t) ==
    /\ call.tasks[t].pc = "start"
    /\ \E logs_bloom \in Blooms(chain[t]),
          voucher_address \in ReadVoucherAddress(acc.value) :
          LET block == [hash |-> t, logs_bloom |-> logs_bloom]
              task == IF ~InBloom(logs_bloom, voucher_address)
                      THEN [pc |-> "done", block |-> block,
                            voucher_address |-> voucher_address,
                            response |-> NotIssued,
                            vouchers_read |-> None,
                            result |-> Ok(acc.value)]
                      ELSE [pc |-> "awaiting", block |-> block,
                            voucher_address |-> voucher_address,
                            contract |-> build_fold_contract(voucher_address, block)]
          IN  call' = [call EXCEPT !.tasks[t] = task,
                                   !.schedule = Append(@, <<t, "start">>)]
    /\ UNCHANGED <<chain, acc>>

\* lines 141-161: the answer of the query arrives and fold runs to its return
ConcResume(t) ==
    /\ call.tasks[t].pc = "awaiting"
    /\ \E response \in {Failed, Answer(VoucherExecutedEvents(chain, call.tasks[t].contract))},
          vouchers_read \in ReadVouchers(acc.value) :
          LET events == FoldEvents(response)
              vouchers == MergeEvents(vouchers_read, response.events)
              task == [pc |-> "done", block |-> call.tasks[t].block,
                       voucher_address |-> call.tasks[t].voucher_address,
                       response |-> response,
                       vouchers_read |-> IF response.ok THEN Some(vouchers_read) ELSE None,
                       result |-> IF events.tag # "Ok" THEN events
                                  ELSE Ok(FoldState(vouchers, call.tasks[t].voucher_address))]
          IN  /\ call' = [call EXCEPT !.tasks[t] = task,
                                      !.schedule = Append(@, <<t, "resume">>)]
              /\ acc' = IF response.ok
                        THEN Some(PreviousAfterMerge(acc.value, vouchers))
                        ELSE acc
    /\ UNCHANGED chain

ConcNext == \E t \in FoldTasks : ConcStart(t) \/ ConcResume(t)

ConcSpec == ConcInit /\ [][ConcNext]_vars

---------------------------------------------------------------------------
(* convert_voucher_position_to_indices applied to positions on its own *)

\* limb values: single byte, two bytes, and the fourth byte of the limb
LimbInputs == {0, 1, 258, 1073741824}

CodecPositions ==
    {Position(reserved, voucher_index, input_index, epoch) :
        reserved \in LimbInputs, voucher_index \in LimbInputs,
        input_index \in LimbInputs, epoch \in LimbInputs}

CodecConvert ==
    /\ call.op = "none"
    /\ \E voucher_position \in CodecPositions :
          call' = [op |-> "convert",
                   voucher_position |-> voucher_position,
                   indices |-> convert_voucher_position_to_indices(voucher_position)]
    /\ UNCHANGED <<chain, acc>>

CodecReturn ==
    /\ call.op = "convert"
    /\ call' = NoCall
    /\ UNCHANGED <<chain, acc>>

CodecNext == CodecConvert \/ CodecReturn

CodecSpec == Init /\ [][CodecNext]_vars

---------------------------------------------------------------------------
(* The merge loop of fold applied to a ledger on its own: acc holds the ledger *)

MaxMerge == 3

\* positions that share a voucher, share an input, or differ in reserved bits
LedgerPositions ==
    PositionInputs \cup {Position(1, 5, 2, 9), Position(0, 6, 2, 9)}

IndexInputs == {convert_voucher_position_to_indices(p) : p \in LedgerPositions}

EventInputs ==
    UNION {[1..n -> [voucher_position : LedgerPositions]] : n \in 0..MaxMerge}

LedgerInit ==
    /\ chain = <<>>
    /\ acc = Some(EmptyMap)
    /\ call = NoCall

\* one pass of the body of the loop, lines 149-155
LedgerMerge ==
    /\ call.op = "none"
    /\ \E indices \in IndexInputs :
          LET merged == MergeExecuted(acc.value, indices[1], indices[2], indices[3])
          IN  /\ call' = [op |-> "merge_executed", vouchers |-> acc.value,
                          indices |-> indices, result |-> merged]
              /\ acc' = Some(merged)
    /\ UNCHANGED chain

\* the whole loop over the events of one block, lines 146-156
LedgerMergeEvents ==
    /\ call.op = "none"
    /\ \E events \in EventInputs :
          LET merged == MergeEvents(acc.value, events)
          IN  /\ call' = [op |-> "merge_events", vouchers |-> acc.value,
                          events |-> events, result |-> merged]
              /\ acc' = Some(merged)
    /\ UNCHANGED chain

LedgerReturn ==
    /\ call.op \in {"merge_executed", "merge_events"}
    /\ call' = NoCall
    /\ UNCHANGED <<chain, acc>>

LedgerNext == LedgerMerge \/ LedgerMergeEvents \/ LedgerReturn

LedgerSpec == LedgerInit /\ [][LedgerNext]_vars

---------------------------------------------------------------------------
(* Vocabulary of the properties *)

\* the ledger an accumulator carries; none when its literal set no `vouchers`
HasLedger(state) == "vouchers" \in DOMAIN state

LedgerTriples(state) == IF HasLedger(state) THEN Executed(state.vouchers) ELSE {}

\* the triple a packed position stands for: (bits 128..191, 64..127, 0..63)
PositionTriple(voucher_position) ==
    <<voucher_position[3], voucher_position[2], voucher_position[1]>>

\* the triples of the voucher-executed logs of one contract among logs
LogTriples(logs, address) ==
    {PositionTriple(logs[k].voucher_position) :
        k \in {j \in 1..Len(logs) : logs[j].address = address}}

IsSync == call.op = "sync"

IsFold == call.op = "fold"

\* a successful fold that went through the query
FoldQueried ==
    /\ IsFold
    /\ InBloom(call.block.logs_bloom, call.voucher_address)
    /\ call.result.tag = "Ok"

SyncOk == IsSync /\ call.result.tag = "Ok"

\* the fields of the accumulator other than the ledger
FrameFields ==
    {"validator_manager_address", "erc20_address", "fee_per_claim",
     "validator_redeemed", "leftover_balance", "fee_manager_balance"}

---------------------------------------------------------------------------
(* C1 - C10 *)

\* C1: a step taken from a state that holds an accumulator (a fold,
\* short-circuited or not, or a failed fold) leaves an accumulator in which
\* every triple executed before is still executed: no fold removes or
\* unmarks an entry of the ledger.
C1_LedgerMonotone ==
    [][acc.some =>
          /\ acc'.some
          /\ LedgerTriples(acc.value) \subseteq LedgerTriples(acc'.value)]_vars

\* a fold that merged a new triple into a ledger that already held one
C1_Witness ==
    /\ FoldQueried
    /\ LedgerTriples(call.previous_state) # {}
    /\ LedgerTriples(call.previous_state) \subseteq LedgerTriples(call.result.value)
    /\ LedgerTriples(call.result.value) # LedgerTriples(call.previous_state)

\* C2: when contains_address or contains_topic answers false for the block's
\* logs bloom, fold returns Ok with an accumulator equal to the previous one
\* and makes no contract binding and no event query.
C2_BloomShortCircuit ==
    (IsFold /\ (\/ ~contains_address(call.block.logs_bloom, call.voucher_address)
                \/ ~contains_topic(call.block.logs_bloom, VoucherExecutedSignature)))
    => /\ call.result = Ok(call.previous_state)
       /\ acc = Some(call.previous_state)
       /\ call.bindings = 0
       /\ call.queries = 0
       /\ ~call.response.issued

\* a short-circuit on the address alone, over a block that does hold logs
C2_Witness ==
    /\ IsFold
    /\ ~contains_address(call.block.logs_bloom, call.voucher_address)
    /\ contains_topic(call.block.logs_bloom, VoucherExecutedSignature)
    /\ chain[call.block.hash] # <<>>

\* C3 as claimed: a successful fold that is not short-circuited returns an
\* accumulator with the six non-ledger fields of the previous one.
C3_FrameAsClaimed ==
    FoldQueried =>
        \A f \in FrameFields :
            f \in DOMAIN call.previous_state =>
                /\ f \in DOMAIN call.result.value
                /\ call.result.value[f] = call.previous_state[f]

\* C4: after a successful fold that is not short-circuited, the triples
\* executed in the returned ledger are exactly those of the ledger fold read
\* from the previous accumulator together with the triples of the
\* voucher-executed logs the bound contract emitted in the new block; the
\* logs of the other blocks add nothing.
C4_FoldLedger ==
    FoldQueried =>
        /\ call.vouchers_read.some
        /\ HasLedger(call.previous_state)
               => call.vouchers_read.value = call.previous_state.vouchers
        /\ HasLedger(call.result.value)
        /\ LedgerTriples(call.result.value)
               = Executed(call.vouchers_read.value)
                     \cup LogTriples(chain[call.block.hash], call.voucher_address)

\* a fold over a block that adds a triple, while another block of the chain
\* holds a log of the same contract that stays out of the result
C4_Witness ==
    /\ FoldQueried
    /\ ~(LogTriples(chain[call.block.hash], call.voucher_address)
             \subseteq Executed(call.vouchers_read.value))
    /\ \E h \in DOMAIN chain :
          /\ h # call.block.hash
          /\ ~(LogTriples(chain[h], call.voucher_address)
                   \subseteq LedgerTriples(call.result.value))

\* C5 as claimed: the accumulator of a successful sync carries a ledger whose
\* executed triples are exactly those of the voucher-executed events of the
\* contract up to the target block.
C5_SyncLedgerAsClaimed ==
    SyncOk =>
        LedgerTriples(call.result.value)
            = LogTriples(LogsUpTo(chain, call.block.number), call.fee_manager_address)

\* C6: after a successful sync the three creation fields are those of the
\* first manager-created event, and both balances are 0.
C6_SyncCreationFields ==
    SyncOk =>
        LET created_event == call.created.events[1]
            state == call.result.value
        IN  /\ state.validator_manager_address = created_event.validator_manager_cci
            /\ state.erc20_address = created_event.erc20
            /\ state.fee_per_claim = created_event.fee_per_claim
            /\ state.leftover_balance = 0
            /\ state.fee_manager_balance = 0

\* a successful sync with exactly one creation event, over a chain with logs
C6_Witness ==
    /\ SyncOk
    /\ Len(call.created.events) = 1
    /\ TotalEvents(chain) > 0

RECURSIVE RedeemedSum(_, _)
\* the sum of the amounts of the events of one validator
RedeemedSum(events, validator) ==
    IF events = <<>> THEN 0
    ELSE (IF events[1].validator = validator THEN events[1].amount ELSE 0)
             + RedeemedSum(Tail(events), validator)

RedeemedValidators(events) == {events[k].validator : k \in DOMAIN events}

\* the redemption events reached the aggregation loop
SyncAggregates == IsSync /\ call.created.ok /\ call.created.events # <<>> /\ call.redeemed.ok

\* C7 as claimed: with at most 8 distinct validators sync returns an array in
\* which every validator of the events holds exactly one slot, with the sum of
\* its amounts, and no slot holds any other address.
C7_AggregationAsClaimed ==
    (SyncAggregates /\ Cardinality(RedeemedValidators(call.redeemed.events)) <= ValidatorSlots)
    => /\ call.result.tag = "Ok"
       /\ LET slots == call.result.value.validator_redeemed
              events == call.redeemed.events
          IN  /\ \A a \in RedeemedValidators(events) :
                    /\ Cardinality({k \in DOMAIN slots :
                                       slots[k].some /\ slots[k].value[1] = a}) = 1
                    /\ \E k \in DOMAIN slots :
                          slots[k] = Some(<<a, RedeemedSum(events, a)>>)
              /\ \A k \in DOMAIN slots :
                    slots[k].some => slots[k].value[1] \in RedeemedValidators(events)

\* C8 as claimed: with more than 8 distinct validators sync returns the error
\* TooManyValidators.
C8_CapacityAsClaimed ==
    (SyncAggregates /\ Cardinality(RedeemedValidators(call.redeemed.events)) > ValidatorSlots)
    => /\ call.result.tag = "Err"
       /\ call.result.error = "TooManyValidators"

\* C9 as claimed: no creation event is the error MissingCreationEvent, more
\* than one is AmbiguousCreationEvent, and exactly one passes this step.
C9_CreationCountAsClaimed ==
    (IsSync /\ call.created.ok)
    => /\ Len(call.created.events) = 0
              => call.result.tag = "Err" /\ call.result.error = "MissingCreationEvent"
       /\ Len(call.created.events) > 1
              => call.result.tag = "Err" /\ call.result.error = "AmbiguousCreationEvent"
       /\ Len(call.created.events) = 1 => call.redeemed.issued

\* C10: a call whose query fails returns the error of that query, with the
\* context tag of that query, and no accumulator; a failed fold leaves the
\* previous accumulator as it was; a call that returns an accumulator had
\* every query it issued answered.
C10_QueryFailureAtomic ==
    /\ (IsSync /\ ~call.created.ok)
           => /\ call.result = Err("SyncContractError",
                                   "Error querying for fee manager created events")
              /\ ~call.redeemed.issued
              /\ ~acc.some
    /\ (IsSync /\ call.redeemed.issued /\ ~call.redeemed.ok)
           => /\ call.result = Err("SyncContractError",
                                   "Error querying for fee redeemed events")
              /\ ~acc.some
    /\ (IsFold /\ call.response.issued /\ ~call.response.ok)
           => /\ call.result = Err("FoldContractError",
                                   "Error querying for voucher executed events")
              /\ acc = Some(call.previous_state)
    /\ SyncOk => call.created.ok /\ call.redeemed.issued /\ call.redeemed.ok
    /\ FoldQueried => call.response.issued /\ call.response.ok

\* a sync whose creation query was answered and whose redemption query failed
C10_Witness ==
    /\ IsSync
    /\ call.created.ok
    /\ call.redeemed.issued
    /\ ~call.redeemed.ok

---------------------------------------------------------------------------
(* C11 - C19 *)

IsConvert == call.op = "convert"

\* C13: a position with the reserved limb 0, that is
\* v * 2^128 + i * 2^64 + e, decodes to exactly (v, i, e), and no other such
\* position decodes to the same triple.
C13_PositionRoundTrip ==
    (IsConvert /\ call.voucher_position[4] = 0)
    => /\ call.indices = PositionTriple(call.voucher_position)
       /\ \A other \in CodecPositions :
             (other[4] = 0 /\ other # call.voucher_position)
                 => convert_voucher_position_to_indices(other) # call.indices

\* a position whose three indices are different and not all of one byte
C13_Witness ==
    /\ IsConvert
    /\ call.voucher_position = Position(0, 258, 1, 1073741824)
    /\ call.indices = <<258, 1, 1073741824>>

\* C19: every position decodes, to the three low limbs whatever the reserved
\* limb holds; positions that differ in the reserved limb only decode alike
\* and are merged as one entry of the ledger.
C19_ReservedIgnored ==
    IsConvert =>
        /\ call.indices = PositionTriple(call.voucher_position)
        /\ \A reserved \in LimbInputs :
              LET other == [call.voucher_position EXCEPT ![4] = reserved]
              IN  /\ convert_voucher_position_to_indices(other) = call.indices
                  /\ Executed(MergeEvents(EmptyMap,
                                          <<[voucher_position |-> call.voucher_position],
                                            [voucher_position |-> other]>>))
                         = {call.indices}

\* a position with bits set in the reserved limb
C19_Witness ==
    /\ IsConvert
    /\ call.voucher_position[4] = 1073741824
    /\ call.voucher_position[3] = 258
    /\ call.indices[1] = 258

IsMerge == call.op = "merge_executed"

IsMergeEvents == call.op = "merge_events"

EventTriples(events) ==
    {convert_voucher_position_to_indices(events[n].voucher_position) : n \in DOMAIN events}

\* C11: merging a triple a second time changes nothing, merging a triple the
\* ledger already marks returns the ledger as it was, and the loop over events
\* that are all marked already returns the ledger as it was.
C11_MergeIdempotent ==
    /\ IsMerge =>
          /\ MergeExecuted(call.result, call.indices[1], call.indices[2],
                           call.indices[3]) = call.result
          /\ call.indices \in Executed(call.vouchers) => call.result = call.vouchers
    /\ IsMergeEvents =>
          /\ MergeEvents(call.result, call.events) = call.result
          /\ EventTriples(call.events) \subseteq Executed(call.vouchers)
                => call.result = call.vouchers

\* a nonempty ledger, with a second entry under the same voucher, receives
\* events that it marks already
C11_Witness ==
    /\ IsMergeEvents
    /\ Len(call.events) >= 2
    /\ EventTriples(call.events) \subseteq Executed(call.vouchers)
    /\ Cardinality(Executed(call.vouchers)) >= 2
    /\ call.result = call.vouchers

\* C12: the ledger the loop returns is the same for every sequence made of the
\* same events, in any order and with any repetition, and two merges give the
\* same ledger in either order.
C12_MergeCommutative ==
    /\ IsMergeEvents =>
          \A other \in EventInputs :
             {other[n] : n \in DOMAIN other} = {call.events[n] : n \in DOMAIN call.events}
                => MergeEvents(call.vouchers, other) = call.result
    /\ IsMerge =>
          \A indices \in IndexInputs :
             MergeExecuted(call.result, indices[1], indices[2], indices[3])
                = MergeExecuted(MergeExecuted(call.vouchers, indices[1], indices[2],
                                              indices[3]),
                                call.indices[1], call.indices[2], call.indices[3])

\* two events under one voucher with different inputs, merged in one order
C12_Witness ==
    /\ IsMergeEvents
    /\ call.events = <<[voucher_position |-> Position(1, 5, 3, 9)],
                       [voucher_position |-> Position(0, 5, 2, 9)]>>
    /\ Executed(call.result) = Executed(call.vouchers) \cup {<<5, 3, 9>>, <<5, 2, 9>>}
    /\ Cardinality(Executed(call.result)) > Cardinality(Executed(call.vouchers))

C16_SyncFoldAgreeAsClaimed ==
    (/\ IsFold
     /\ call.result.tag = "Ok"
     /\ call.block.hash = Len(chain)
     /\ Ok(call.previous_state) \in SyncAgain(call.block.hash - 1)
     /\ call.vouchers_read.some => call.vouchers_read.value = EmptyMap)
    => \A again \in SyncAgain(call.block.hash) :
          again.tag = "Ok"
              => LedgerTriples(call.result.value) = LedgerTriples(again.value)

\* C17 as claimed: after a successful fold every voucher-executed log of the
\* block at the address fold tested is marked in the ledger of the result, on
\* either branch, and a fold that queried and received no events returns the
\* previous accumulator.
C17_NoLostExecutionAsClaimed ==
    (IsFold /\ call.result.tag = "Ok")
    => /\ LogTriples(chain[call.block.hash], call.voucher_address)
              \subseteq LedgerTriples(call.result.value)
       /\ (call.response.issued /\ call.response.events = <<>>)
              => call.result.value = call.previous_state

\* C18 as claimed: a fold that follows a successful sync tests the address
\* that sync was given, and a fold that follows a fold tests the address the
\* earlier fold tested.
C18_AddressCarriedAsClaimed ==
    [][/\ (SyncOk /\ call'.op = "fold")
              => call'.voucher_address = call.fee_manager_address
       /\ (IsFold /\ call'.op = "fold")
              => call'.voucher_address = call.voucher_address]_vars

IsFolds == call.op = "folds"

\* what the fold of task t returns when no other call is in flight, for the
\* values task t read and received
FoldAlone(t) ==
    LET task == call.tasks[t]
    IN  fold(call.previous_state, task.block, task.voucher_address,
             IF task.vouchers_read.some THEN task.vouchers_read.value ELSE EmptyMap,
             task.response)

\* C15: with several folds in flight from one previous accumulator on sibling
\* blocks, the previous accumulator stays as it was at every point of every
\* interleaving, and a fold that returned has read only values of that
\* accumulator, returns what it returns alone, and marks no triple that is
\* neither in the ledger it read nor in a log of its own block.
C15_ConcurrentFoldsIsolated ==
    IsFolds =>
        /\ acc = Some(call.previous_state)
        /\ \A t \in FoldTasks :
              LET task == call.tasks[t]
              IN  task.pc = "done" =>
                    /\ task.voucher_address \in ReadVoucherAddress(call.previous_state)
                    /\ task.vouchers_read.some
                          => task.vouchers_read.value \in ReadVouchers(call.previous_state)
                    /\ task.result = FoldAlone(t)
                    /\ (task.result.tag = "Ok" /\ task.vouchers_read.some)
                          => LedgerTriples(task.result.value)
                                = Executed(task.vouchers_read.value)
                                    \cup LogTriples(chain[t], task.voucher_address)

\* both folds were suspended at their queries at the same time, the second
\* resumed after the first had merged, and the two blocks hold different logs
\* of the address both test
C15_Witness ==
    /\ IsFolds
    /\ call.schedule = <<<<1, "start">>, <<2, "start">>, <<1, "resume">>, <<2, "resume">>>>
    /\ HasLedger(call.previous_state)
    /\ \A t \in FoldTasks :
          /\ call.tasks[t].pc = "done"
          /\ call.tasks[t].result.tag = "Ok"
          /\ call.tasks[t].response.issued
          /\ call.tasks[t].response.events # <<>>
    /\ LedgerTriples(call.tasks[1].result.value) # LedgerTriples(call.tasks[2].result.value)

====
